---- MODULE Spec2Model ----
(***************************************************************************)
(* Wire schema and builder layer of anthropic-rs (src/anthropic/src/       *)
(* types.rs): the derive_builder request builders, the serde encoders of   *)
(* the requests and the serde decoders of the responses and of the         *)
(* server-sent stream events.                                              *)
(*                                                                         *)
(* JSON values are records tagged by kind (k): null, bool, num (an         *)
(* integer), float, str, arr (a sequence), obj (a function from keys to    *)
(* values).  Rust Option and Result values are records tagged by some and  *)
(* ok.  Integers stay far below 2^31, so the width checks of i32 and usize *)
(* reduce to the sign check of usize.                                      *)
(***************************************************************************)
EXTENDS Integers, Sequences, FiniteSets, TLC

\* The request side: pc is the caller's position, cmb and crb the two
\* builders, request the result of build(), body the serialized request.
\* The response side: endpoint names the type being decoded, pending holds the
\* payloads the transport has delivered and the decoder has not read yet,
\* events the payloads read so far, items the decoder's results for them.
VARIABLES pc, cmb, crb, request, body, endpoint, pending, events, items

vars == <<pc, cmb, crb, request, body, endpoint, pending, events, items>>

-----------------------------------------------------------------------------
(* JSON values, Option, Result *)

JNull == [k |-> "null"]
JBool(b) == [k |-> "bool", v |-> b]
JNum(n) == [k |-> "num", v |-> n]
JFloat(f) == [k |-> "float", v |-> f]
JStr(s) == [k |-> "str", v |-> s]
JArr(s) == [k |-> "arr", v |-> s]
JObj(f) == [k |-> "obj", v |-> f]

None == [some |-> FALSE]
Some(x) == [some |-> TRUE, v |-> x]

Ok(x) == [ok |-> TRUE, v |-> x]
Err(e) == [ok |-> FALSE, err |-> e]
SchemaError == Err("SchemaError")

Without(m, key) == [x \in (DOMAIN m) \ {key} |-> m[x]]
With(m, key, val) == [x \in (DOMAIN m) \cup {key} |-> IF x = key THEN val ELSE m[x]]

-----------------------------------------------------------------------------
(* serde's derived Deserialize *)

\* A struct is read from a JSON object by field name or from a JSON array of
\* exactly its fields in declaration order; any other shape is refused.
StructMap(j, names) ==
    IF j.k = "obj" THEN Ok(j.v)
    ELSE IF j.k = "arr" /\ Len(j.v) = Len(names)
         THEN Ok([n \in {names[i] : i \in 1..Len(names)} |->
                    j.v[CHOOSE i \in 1..Len(names) : names[i] = n]])
         ELSE SchemaError

\* The value under a key, or Missing, which no type decodes from: a missing
\* field of type T is an error.
Missing == [k |-> "missing"]
Get(m, key) == IF key \in DOMAIN m THEN m[key] ELSE Missing

\* A field of type Option<T>, r being what T decodes from j: a missing or null
\* field is None.
Optional(j, r) ==
    IF j.k \in {"missing", "null"} THEN Ok(None)
    ELSE IF r.ok THEN Ok(Some(r.v)) ELSE SchemaError

DeString(j) == IF j.k = "str" THEN Ok(j.v) ELSE SchemaError
DeI32(j) == IF j.k = "num" THEN Ok(j.v) ELSE SchemaError
DeUsize(j) == IF j.k = "num" /\ j.v >= 0 THEN Ok(j.v) ELSE SchemaError

DeUsage(j) ==
    LET m == StructMap(j, <<"input_tokens", "output_tokens">>) IN
    IF ~m.ok THEN SchemaError ELSE
    LET i == DeI32(Get(m.v, "input_tokens"))
        o == DeI32(Get(m.v, "output_tokens"))
    IN IF i.ok /\ o.ok
       THEN Ok([input_tokens |-> i.v, output_tokens |-> o.v])
       ELSE SchemaError

DeImageSource(j) ==
    LET m == StructMap(j, <<"type", "media_type", "data">>) IN
    IF ~m.ok THEN SchemaError ELSE
    LET t == DeString(Get(m.v, "type"))
        mt == DeString(Get(m.v, "media_type"))
        d == DeString(Get(m.v, "data"))
    IN IF t.ok /\ mt.ok /\ d.ok
       THEN Ok([source_type |-> t.v, media_type |-> mt.v, data |-> d.v])
       ELSE SchemaError

DeContentBlock(j) ==
    LET m == StructMap(j, <<"type", "text", "source">>) IN
    IF ~m.ok THEN SchemaError ELSE
    LET t == DeString(Get(m.v, "type"))
        x == Optional(Get(m.v, "text"), DeString(Get(m.v, "text")))
        s == Optional(Get(m.v, "source"), DeImageSource(Get(m.v, "source")))
    IN IF t.ok /\ x.ok /\ s.ok
       THEN Ok([content_type |-> t.v, text |-> x.v, source |-> s.v])
       ELSE SchemaError

\* Vec<ContentBlock>: a JSON array whose every element decodes, order kept.
DeContentBlocks(j) ==
    IF j.k = "arr" /\ \A i \in 1..Len(j.v) : DeContentBlock(j.v[i]).ok
    THEN Ok([i \in 1..Len(j.v) |-> DeContentBlock(j.v[i]).v])
    ELSE SchemaError

DeMessage(j) ==
    LET m == StructMap(j, <<"id", "type", "role", "content", "model",
                            "stop_reason", "stop_sequence", "usage">>) IN
    IF ~m.ok THEN SchemaError ELSE
    LET id == DeString(Get(m.v, "id"))
        ty == DeString(Get(m.v, "type"))
        ro == DeString(Get(m.v, "role"))
        co == DeContentBlocks(Get(m.v, "content"))
        mo == DeString(Get(m.v, "model"))
        sr == Optional(Get(m.v, "stop_reason"), DeString(Get(m.v, "stop_reason")))
        ss == Optional(Get(m.v, "stop_sequence"), DeString(Get(m.v, "stop_sequence")))
        us == DeUsage(Get(m.v, "usage"))
    IN IF id.ok /\ ty.ok /\ ro.ok /\ co.ok /\ mo.ok /\ sr.ok /\ ss.ok /\ us.ok
       THEN Ok([id |-> id.v, object_type |-> ty.v, role |-> ro.v,
                content |-> co.v, model |-> mo.v, stop_reason |-> sr.v,
                stop_sequence |-> ss.v, usage |-> us.v])
       ELSE SchemaError

DeCreateMessageResponse(j) ==
    LET m == StructMap(j, <<"id", "type", "role", "content", "model",
                            "stop_reason", "stop_sequence", "usage">>) IN
    IF ~m.ok THEN SchemaError ELSE
    LET id == DeString(Get(m.v, "id"))
        ty == DeString(Get(m.v, "type"))
        ro == DeString(Get(m.v, "role"))
        co == DeContentBlocks(Get(m.v, "content"))
        mo == DeString(Get(m.v, "model"))
        sr == DeString(Get(m.v, "stop_reason"))
        ss == Optional(Get(m.v, "stop_sequence"), DeString(Get(m.v, "stop_sequence")))
        us == DeUsage(Get(m.v, "usage"))
    IN IF id.ok /\ ty.ok /\ ro.ok /\ co.ok /\ mo.ok /\ sr.ok /\ ss.ok /\ us.ok
       THEN Ok([id |-> id.v, object_type |-> ty.v, role |-> ro.v,
                content |-> co.v, model |-> mo.v, stop_reason |-> sr.v,
                stop_sequence |-> ss.v, usage |-> us.v])
       ELSE SchemaError

\* StopReason without rename_all: the variants answer to their Rust names.
DeStopReasonVariantNames(j) ==
    IF j.k = "str" /\ j.v = "MaxTokens" THEN Ok("MaxTokens")
    ELSE IF j.k = "str" /\ j.v = "StopSequence" THEN Ok("StopSequence")
    ELSE SchemaError

\* rename_all = "snake_case": a unit variant is read from its name as a string.
DeStopReason(j) ==
    IF j.k = "str" /\ j.v = "max_tokens" THEN Ok("MaxTokens")
    ELSE IF j.k = "str" /\ j.v = "stop_sequence" THEN Ok("StopSequence")
    ELSE SchemaError

DeCompleteResponse(j) ==
    LET m == StructMap(j, <<"completion", "stop_reason">>) IN
    IF ~m.ok THEN SchemaError ELSE
    LET c == DeString(Get(m.v, "completion"))
        sr == Optional(Get(m.v, "stop_reason"), DeStopReason(Get(m.v, "stop_reason")))
    IN IF c.ok /\ sr.ok
       THEN Ok([completion |-> c.v, stop_reason |-> sr.v])
       ELSE SchemaError

\* Content without untagged: an externally tagged enum, {"Text": ...} or
\* {"Blocks": ...}.
DeContentTagged(j) ==
    IF j.k = "obj" /\ DOMAIN j.v = {"Text"} /\ DeString(j.v["Text"]).ok
    THEN Ok([variant |-> "Text", text |-> j.v["Text"].v])
    ELSE IF j.k = "obj" /\ DOMAIN j.v = {"Blocks"} /\ DeContentBlocks(j.v["Blocks"]).ok
    THEN Ok([variant |-> "Blocks", blocks |-> DeContentBlocks(j.v["Blocks"]).v])
    ELSE SchemaError

\* untagged: the variants are tried in declaration order, the first that
\* decodes wins.
DeContent(j) ==
    LET t == DeString(j)
        b == DeContentBlocks(j)
    IN IF t.ok THEN Ok([variant |-> "Text", text |-> t.v])
       ELSE IF b.ok THEN Ok([variant |-> "Blocks", blocks |-> b.v])
       ELSE SchemaError

\* ContentDelta without rename = "type": delta_type is read from its own name.
DeContentDeltaNoRename(j) ==
    LET m == StructMap(j, <<"delta_type", "text">>) IN
    IF ~m.ok THEN SchemaError ELSE
    LET t == DeString(Get(m.v, "delta_type"))
        x == DeString(Get(m.v, "text"))
    IN IF t.ok /\ x.ok
       THEN Ok([delta_type |-> t.v, text |-> x.v])
       ELSE SchemaError

DeContentDelta(j) ==
    LET m == StructMap(j, <<"type", "text">>) IN
    IF ~m.ok THEN SchemaError ELSE
    LET t == DeString(Get(m.v, "type"))
        x == DeString(Get(m.v, "text"))
    IN IF t.ok /\ x.ok
       THEN Ok([delta_type |-> t.v, text |-> x.v])
       ELSE SchemaError

DeMessageDelta(j) ==
    LET m == StructMap(j, <<"stop_reason", "stop_sequence", "usage">>) IN
    IF ~m.ok THEN SchemaError ELSE
    LET sr == Optional(Get(m.v, "stop_reason"), DeString(Get(m.v, "stop_reason")))
        ss == Optional(Get(m.v, "stop_sequence"), DeString(Get(m.v, "stop_sequence")))
        us == Optional(Get(m.v, "usage"), DeUsage(Get(m.v, "usage")))
    IN IF sr.ok /\ ss.ok /\ us.ok
       THEN Ok([stop_reason |-> sr.v, stop_sequence |-> ss.v, usage |-> us.v])
       ELSE SchemaError

DeErrorData(j) ==
    LET m == StructMap(j, <<"type", "message">>) IN
    IF ~m.ok THEN SchemaError ELSE
    LET t == DeString(Get(m.v, "type"))
        x == DeString(Get(m.v, "message"))
    IN IF t.ok /\ x.ok
       THEN Ok([error_type |-> t.v, message |-> x.v])
       ELSE SchemaError

\* tag = "type": the variant is chosen by the string under "type" (the first
\* element when the event comes as an array) and read from the other fields.
\* A variant answers to its rename, Unknown, which has none, to its own name;
\* no variant is marked serde(other).
EventTag(j) ==
    IF j.k = "obj" /\ "type" \in DOMAIN j.v /\ j.v["type"].k = "str"
    THEN Ok(j.v["type"].v)
    ELSE IF j.k = "arr" /\ Len(j.v) >= 1 /\ j.v[1].k = "str"
    THEN Ok(j.v[1].v)
    ELSE SchemaError

EventFields(j) == IF j.k = "obj" THEN JObj(Without(j.v, "type")) ELSE JArr(Tail(j.v))

DeMessageStart(c) ==
    LET m == StructMap(c, <<"message">>) IN
    IF ~m.ok THEN SchemaError ELSE
    LET x == DeMessage(Get(m.v, "message"))
    IN IF x.ok THEN Ok([variant |-> "MessageStart", message |-> x.v])
       ELSE SchemaError

DeContentBlockStart(c) ==
    LET m == StructMap(c, <<"index", "content_block">>) IN
    IF ~m.ok THEN SchemaError ELSE
    LET i == DeUsize(Get(m.v, "index"))
        b == DeContentBlock(Get(m.v, "content_block"))
    IN IF i.ok /\ b.ok
       THEN Ok([variant |-> "ContentBlockStart", index |-> i.v, content_block |-> b.v])
       ELSE SchemaError

DeContentBlockDelta(c) ==
    LET m == StructMap(c, <<"index", "delta">>) IN
    IF ~m.ok THEN SchemaError ELSE
    LET i == DeUsize(Get(m.v, "index"))
        d == DeContentDelta(Get(m.v, "delta"))
    IN IF i.ok /\ d.ok
       THEN Ok([variant |-> "ContentBlockDelta", index |-> i.v, delta |-> d.v])
       ELSE SchemaError

\* ContentBlockStop with serde(default) on index: a missing index is 0.
DeContentBlockStopDefaultIndex(c) ==
    LET m == StructMap(c, <<"index">>) IN
    IF ~m.ok THEN SchemaError ELSE
    LET i == IF "index" \in DOMAIN m.v THEN DeUsize(m.v["index"]) ELSE Ok(0)
    IN IF i.ok THEN Ok([variant |-> "ContentBlockStop", index |-> i.v])
       ELSE SchemaError

DeContentBlockStop(c) ==
    LET m == StructMap(c, <<"index">>) IN
    IF ~m.ok THEN SchemaError ELSE
    LET i == DeUsize(Get(m.v, "index"))
    IN IF i.ok THEN Ok([variant |-> "ContentBlockStop", index |-> i.v])
       ELSE SchemaError

DeMessageDeltaEvent(c) ==
    LET m == StructMap(c, <<"delta">>) IN
    IF ~m.ok THEN SchemaError ELSE
    LET d == DeMessageDelta(Get(m.v, "delta"))
    IN IF d.ok THEN Ok([variant |-> "MessageDelta", delta |-> d.v])
       ELSE SchemaError

DeErrorEvent(c) ==
    LET m == StructMap(c, <<"error">>) IN
    IF ~m.ok THEN SchemaError ELSE
    LET e == DeErrorData(Get(m.v, "error"))
    IN IF e.ok THEN Ok([variant |-> "Error", error |-> e.v])
       ELSE SchemaError

\* A variant without fields: the other keys of the object are ignored.
DeFieldless(c, name) ==
    IF StructMap(c, <<>>).ok THEN Ok([variant |-> name]) ELSE SchemaError

VariantOfTag(tag) ==
    CASE tag = "message_start" -> Some("MessageStart")
      [] tag = "content_block_start" -> Some("ContentBlockStart")
      [] tag = "content_block_delta" -> Some("ContentBlockDelta")
      [] tag = "content_block_stop" -> Some("ContentBlockStop")
      [] tag = "message_delta" -> Some("MessageDelta")
      [] tag = "message_stop" -> Some("MessageStop")
      [] tag = "ping" -> Some("Ping")
      [] tag = "error" -> Some("Error")
      [] tag = "Unknown" -> Some("Unknown")
      [] OTHER -> None

DeStreamEvent(j) ==
    LET t == EventTag(j) IN
    IF ~t.ok THEN SchemaError ELSE
    LET n == VariantOfTag(t.v)
        c == EventFields(j)
    IN IF ~n.some THEN SchemaError
       ELSE CASE n.v = "MessageStart" -> DeMessageStart(c)
              [] n.v = "ContentBlockStart" -> DeContentBlockStart(c)
              [] n.v = "ContentBlockDelta" -> DeContentBlockDelta(c)
              [] n.v = "ContentBlockStop" -> DeContentBlockStop(c)
              [] n.v = "MessageDelta" -> DeMessageDeltaEvent(c)
              [] n.v = "Error" -> DeErrorEvent(c)
              [] OTHER -> DeFieldless(c, n.v)

-----------------------------------------------------------------------------
(* serde's derived Serialize *)

\* Vec<String>
SerStrings(s) == JArr([i \in 1..Len(s) |-> JStr(s[i])])

\* Option<T> without skip_serializing_if: None is written as null.
SerOptString(o) == IF o.some THEN JStr(o.v) ELSE JNull
SerOptStrings(o) == IF o.some THEN SerStrings(o.v) ELSE JNull
SerOptF64(o) == IF o.some THEN JFloat(o.v) ELSE JNull
SerOptI32(o) == IF o.some THEN JNum(o.v) ELSE JNull

SerUsage(u) ==
    JObj([input_tokens |-> JNum(u.input_tokens),
          output_tokens |-> JNum(u.output_tokens)])

SerImageSource(s) ==
    JObj([type |-> JStr(s.source_type), media_type |-> JStr(s.media_type),
          data |-> JStr(s.data)])

\* ContentBlock without skip_serializing_if: None is written as null.
SerContentBlockWithNulls(b) ==
    JObj([type |-> JStr(b.content_type), text |-> SerOptString(b.text),
          source |-> IF b.source.some THEN SerImageSource(b.source.v) ELSE JNull])

\* skip_serializing_if = "Option::is_none" on text and on source.
SerContentBlock(b) ==
    LET t == [type |-> JStr(b.content_type)]
        x == IF b.text.some THEN With(t, "text", JStr(b.text.v)) ELSE t
        s == IF b.source.some THEN With(x, "source", SerImageSource(b.source.v)) ELSE x
    IN JObj(s)

SerContentBlocks(s) == JArr([i \in 1..Len(s) |-> SerContentBlock(s[i])])

SerMessage(m) ==
    JObj([id |-> JStr(m.id), type |-> JStr(m.object_type), role |-> JStr(m.role),
          content |-> SerContentBlocks(m.content), model |-> JStr(m.model),
          stop_reason |-> SerOptString(m.stop_reason),
          stop_sequence |-> SerOptString(m.stop_sequence),
          usage |-> SerUsage(m.usage)])

SerCreateMessageRequest(r) ==
    JObj([model |-> JStr(r.model),
          messages |-> JArr([i \in 1..Len(r.messages) |-> SerMessage(r.messages[i])]),
          system |-> SerOptString(r.system),
          max_tokens |-> JNum(r.max_tokens),
          stop_sequences |-> SerOptStrings(r.stop_sequences),
          stream |-> JBool(r.stream),
          temperature |-> SerOptF64(r.temperature),
          top_p |-> SerOptF64(r.top_p),
          top_k |-> SerOptI32(r.top_k)])

SerCompleteRequest(r) ==
    JObj([prompt |-> JStr(r.prompt),
          model |-> JStr(r.model),
          max_tokens_to_sample |-> JNum(r.max_tokens_to_sample),
          stop_sequences |-> SerOptStrings(r.stop_sequences),
          stream |-> JBool(r.stream)])

-----------------------------------------------------------------------------
(* derive_builder's builders *)

\* crate::DEFAULT_MODEL, a string constant of the crate.
DEFAULT_MODEL == "DEFAULT_MODEL"

\* Builder::default(): every field unset.  A builder field holds None or
\* Some(value); strip_option makes the setter of an Option<T> field take a T.
CreateMessageRequestBuilderDefault ==
    [model |-> None, messages |-> None, system |-> None, max_tokens |-> None,
     stop_sequences |-> None, stream |-> None, temperature |-> None,
     top_p |-> None, top_k |-> None]

CompleteRequestBuilderDefault ==
    [prompt |-> None, model |-> None, max_tokens_to_sample |-> None,
     stop_sequences |-> None, stream |-> None]

\* derive(Default) of the request structs: "" for String, the empty Vec, None,
\* 0, false.
CreateMessageRequestDefault ==
    [model |-> "", messages |-> <<>>, system |-> None, max_tokens |-> 0,
     stop_sequences |-> None, stream |-> FALSE, temperature |-> None,
     top_p |-> None, top_k |-> None]

CompleteRequestDefault ==
    [prompt |-> "", model |-> "", max_tokens_to_sample |-> 0,
     stop_sequences |-> None, stream |-> FALSE]

\* A field of the built value: the value set, else the field's default.
OrDefault(f, d) == IF f.some THEN f.v ELSE d
\* The same for an Option<T> field, whose setter stored a T.
OrDefaultOpt(f, d) == IF f.some THEN Some(f.v) ELSE d

\* build(): builder(default) on the struct takes each unset field from the
\* struct's Default, a field's own builder(default = ...) from its expression.
\* No field is left without a default, so no UninitializedFieldError arises.
CreateMessageRequestBuild(b) ==
    LET d == CreateMessageRequestDefault IN
    Ok([model |-> OrDefault(b.model, d.model),
        messages |-> OrDefault(b.messages, d.messages),
        system |-> OrDefaultOpt(b.system, d.system),
        max_tokens |-> OrDefault(b.max_tokens, d.max_tokens),
        stop_sequences |-> OrDefaultOpt(b.stop_sequences, d.stop_sequences),
        stream |-> OrDefault(b.stream, FALSE),
        temperature |-> OrDefaultOpt(b.temperature, d.temperature),
        top_p |-> OrDefaultOpt(b.top_p, d.top_p),
        top_k |-> OrDefaultOpt(b.top_k, d.top_k)])

\* CompleteRequest without builder(default = "DEFAULT_MODEL.to_string()") on
\* model: the unset model comes from the struct's Default.
CompleteRequestBuildStructDefault(b) ==
    LET d == CompleteRequestDefault IN
    Ok([prompt |-> OrDefault(b.prompt, d.prompt),
        model |-> OrDefault(b.model, d.model),
        max_tokens_to_sample |-> OrDefault(b.max_tokens_to_sample, d.max_tokens_to_sample),
        stop_sequences |-> OrDefaultOpt(b.stop_sequences, d.stop_sequences),
        stream |-> OrDefault(b.stream, FALSE)])

CompleteRequestBuild(b) ==
    LET d == CompleteRequestDefault IN
    Ok([prompt |-> OrDefault(b.prompt, d.prompt),
        model |-> OrDefault(b.model, DEFAULT_MODEL),
        max_tokens_to_sample |-> OrDefault(b.max_tokens_to_sample, d.max_tokens_to_sample),
        stop_sequences |-> OrDefaultOpt(b.stop_sequences, d.stop_sequences),
        stream |-> OrDefault(b.stream, FALSE)])

-----------------------------------------------------------------------------
(* Bounds and inputs of the request side *)

\* Longest messages list handed to the messages setter.
MaxMessages == 1

SeqsUpTo(S, n) == UNION {[1..m -> S] : m \in 0..n}

Image == [source_type |-> "base64", media_type |-> "image/png", data |-> "AAAA"]
TextBlock == [content_type |-> "text", text |-> Some("hi"), source |-> None]
ImageBlock == [content_type |-> "image", text |-> None, source |-> Some(Image)]
BareBlock == [content_type |-> "text", text |-> None, source |-> None]
FullBlock == [content_type |-> "image", text |-> Some("hi"), source |-> Some(Image)]

MessageOf(blocks, stop) ==
    [id |-> "msg_1", object_type |-> "message", role |-> "assistant",
     content |-> blocks, model |-> "claude-3", stop_reason |-> stop,
     stop_sequence |-> None, usage |-> [input_tokens |-> 1, output_tokens |-> 2]]

MessageValues ==
    {MessageOf(<<TextBlock>>, None), MessageOf(<<ImageBlock, BareBlock>>, None),
     MessageOf(<<FullBlock>>, Some("end_turn")), MessageOf(<<>>, None)}

ModelValues == {"claude-3"}
PromptValues == {"Human: hi"}
SystemValues == {"be brief"}
MaxTokensValues == {1024}
StopSequencesValues == {<<"STOP">>}
FloatValues == {"0.5"}
TopKValues == {40}

-----------------------------------------------------------------------------
(* The request side: build, then serialize, then hand to the transport *)

NoRequest == [built |-> FALSE]
NoBody == [written |-> FALSE]

RequestSideInit ==
    /\ pc = "idle"
    /\ cmb = CreateMessageRequestBuilderDefault
    /\ crb = CompleteRequestBuilderDefault
    /\ request = NoRequest
    /\ body = NoBody

ResponseSideIdle ==
    /\ endpoint = "none"
    /\ pending = <<>>
    /\ events = <<>>
    /\ items = <<>>

Init == RequestSideInit /\ ResponseSideIdle

responseVars == <<endpoint, pending, events, items>>

\* CreateMessageRequestBuilder::default()
NewCreateMessageRequestBuilder ==
    /\ pc = "idle"
    /\ pc' = "create_message_builder"
    /\ cmb' = CreateMessageRequestBuilderDefault
    /\ UNCHANGED <<crb, request, body, responseVars>>

\* CompleteRequestBuilder::default()
NewCompleteRequestBuilder ==
    /\ pc = "idle"
    /\ pc' = "complete_builder"
    /\ crb' = CompleteRequestBuilderDefault
    /\ UNCHANGED <<cmb, request, body, responseVars>>

\* The nine setters of CreateMessageRequestBuilder.
CreateMessageSet(field, val) ==
    /\ pc = "create_message_builder"
    /\ cmb' = [cmb EXCEPT ![field] = Some(val)]
    /\ UNCHANGED <<pc, crb, request, body, responseVars>>

CreateMessageSetter ==
    \/ \E v \in ModelValues : CreateMessageSet("model", v)
    \/ \E v \in SeqsUpTo(MessageValues, MaxMessages) : CreateMessageSet("messages", v)
    \/ \E v \in SystemValues : CreateMessageSet("system", v)
    \/ \E v \in MaxTokensValues : CreateMessageSet("max_tokens", v)
    \/ \E v \in StopSequencesValues : CreateMessageSet("stop_sequences", v)
    \/ \E v \in BOOLEAN : CreateMessageSet("stream", v)
    \/ \E v \in FloatValues : CreateMessageSet("temperature", v)
    \/ \E v \in FloatValues : CreateMessageSet("top_p", v)
    \/ \E v \in TopKValues : CreateMessageSet("top_k", v)

\* The five setters of CompleteRequestBuilder.
CompleteSet(field, val) ==
    /\ pc = "complete_builder"
    /\ crb' = [crb EXCEPT ![field] = Some(val)]
    /\ UNCHANGED <<pc, cmb, request, body, responseVars>>

CompleteSetter ==
    \/ \E v \in PromptValues : CompleteSet("prompt", v)
    \/ \E v \in ModelValues : CompleteSet("model", v)
    \/ \E v \in MaxTokensValues : CompleteSet("max_tokens_to_sample", v)
    \/ \E v \in StopSequencesValues : CompleteSet("stop_sequences", v)
    \/ \E v \in BOOLEAN : CompleteSet("stream", v)

\* CreateMessageRequestBuilder::build()
BuildCreateMessageRequest ==
    /\ pc = "create_message_builder"
    /\ request' = [built |-> TRUE, type |-> "CreateMessageRequest",
                   result |-> CreateMessageRequestBuild(cmb)]
    /\ pc' = "built"
    /\ UNCHANGED <<cmb, crb, body, responseVars>>

\* CompleteRequestBuilder::build()
BuildCompleteRequest ==
    /\ pc = "complete_builder"
    /\ request' = [built |-> TRUE, type |-> "CompleteRequest",
                   result |-> CompleteRequestBuild(crb)]
    /\ pc' = "built"
    /\ UNCHANGED <<cmb, crb, body, responseVars>>

SerRequest(r) ==
    IF r.type = "CreateMessageRequest" THEN SerCreateMessageRequest(r.result.v)
    ELSE SerCompleteRequest(r.result.v)

\* The caller serializes the request it built; a failed build leaves nothing
\* to serialize.
Serialize ==
    /\ pc = "built"
    /\ request.result.ok
    /\ body' = [written |-> TRUE, json |-> SerRequest(request)]
    /\ pc' = "serialized"
    /\ UNCHANGED <<cmb, crb, request, responseVars>>

\* The body goes to the transport; the builder and the request are dropped.
Send ==
    /\ pc \in {"built", "serialized"}
    /\ pc = "built" => ~request.result.ok
    /\ pc' = "idle"
    /\ cmb' = CreateMessageRequestBuilderDefault
    /\ crb' = CompleteRequestBuilderDefault
    /\ request' = NoRequest
    /\ body' = NoBody
    /\ UNCHANGED responseVars

Next ==
    \/ NewCreateMessageRequestBuilder
    \/ NewCompleteRequestBuilder
    \/ CreateMessageSetter
    \/ CompleteSetter
    \/ BuildCreateMessageRequest
    \/ BuildCompleteRequest
    \/ Serialize
    \/ Send

Spec == Init /\ [][Next]_vars

-----------------------------------------------------------------------------
(* Bounds and inputs of the response side *)

\* Longest stream of events delivered to one call.
MaxStream == 5

UsageJson == JObj([input_tokens |-> JNum(1), output_tokens |-> JNum(2)])
ImageJson ==
    JObj([type |-> JStr("base64"), media_type |-> JStr("image/png"),
          data |-> JStr("AAAA")])
TextBlockJson == JObj([type |-> JStr("text"), text |-> JStr("hi")])
ImageBlockJson == JObj([type |-> JStr("image"), source |-> ImageJson])
BareBlockJson == JObj([type |-> JStr("text")])
NullBlockJson == JObj([type |-> JStr("text"), text |-> JNull, source |-> JNull])

\* One payload changed at one key: dropped, null, or of a shape no field takes.
Damaged(m) ==
    {Without(m, key) : key \in DOMAIN m}
    \cup {With(m, key, JNull) : key \in DOMAIN m}
    \cup {With(m, key, JBool(TRUE)) : key \in DOMAIN m}

MessageJson ==
    [id |-> JStr("msg_1"), type |-> JStr("message"), role |-> JStr("assistant"),
     content |-> JArr(<<TextBlockJson, ImageBlockJson>>), model |-> JStr("claude-3"),
     stop_reason |-> JStr("end_turn"), stop_sequence |-> JStr("STOP"),
     usage |-> UsageJson]

MessagePayloads ==
    {JObj(m) : m \in {MessageJson} \cup Damaged(MessageJson)}
    \cup {JObj(Without(Without(MessageJson, "stop_reason"), "stop_sequence")),
          JObj(With(MessageJson, "container", JNull)),
          JObj(With(MessageJson, "content", JArr(<<>>))),
          JObj(With(MessageJson, "content", JArr(<<JObj([text |-> JStr("hi")])>>))),
          JObj(With(MessageJson, "content", JStr("hi"))),
          JObj(With(MessageJson, "usage", JObj([output_tokens |-> JNum(2)]))),
          JObj(With(MessageJson, "usage",
                    JObj([input_tokens |-> JFloat("1.5"), output_tokens |-> JNum(2)]))),
          JStr("message"), JNull, JArr(<<>>)}

CompleteJson == [completion |-> JStr(" Hello"), stop_reason |-> JStr("stop_sequence")]

CompletePayloads ==
    {JObj(m) : m \in {CompleteJson} \cup Damaged(CompleteJson)}
    \cup {JObj(With(CompleteJson, "stop_reason", JStr("max_tokens"))),
          JObj(With(CompleteJson, "stop_reason", JStr("end_turn"))),
          JObj(With(CompleteJson, "stop_reason", JStr("MaxTokens"))),
          JObj(With(CompleteJson, "model", JStr("claude-2"))),
          JObj(<<>>), JStr(" Hello"), JNull, JNum(0),
          JArr(<<JStr(" Hello"), JStr("max_tokens")>>)}

ContentPayloads ==
    {JStr("hello"), JStr(""), JNum(42), JFloat("1.5"), JBool(TRUE), JNull,
     TextBlockJson, JObj(<<>>),
     JArr(<<>>), JArr(<<TextBlockJson>>), JArr(<<ImageBlockJson, TextBlockJson>>),
     JArr(<<TextBlockJson, ImageBlockJson>>), JArr(<<BareBlockJson, NullBlockJson>>),
     JArr(<<JStr("hello")>>), JArr(<<TextBlockJson, JNum(42)>>),
     JArr(<<JObj([text |-> JStr("hi")])>>),
     JArr(<<JObj([type |-> JStr("text"), text |-> JNum(1)])>>),
     JArr(<<JObj([type |-> JStr("image"), source |-> JObj([type |-> JStr("base64")])])>>)}

Event(tag, fields) == JObj(With(fields, "type", JStr(tag)))

DeltaJson == JObj([type |-> JStr("text_delta"), text |-> JStr("Hi")])
MessageDeltaJson ==
    JObj([stop_reason |-> JStr("end_turn"), stop_sequence |-> JNull,
          usage |-> UsageJson])
ErrorJson == JObj([type |-> JStr("overloaded_error"), message |-> JStr("Overloaded")])

\* The five events of one short reply.
MessageStartEvent == Event("message_start", [message |-> JObj(MessageJson)])
ContentBlockStartEvent ==
    Event("content_block_start", [index |-> JNum(0), content_block |-> TextBlockJson])
ContentBlockDeltaEvent ==
    Event("content_block_delta", [index |-> JNum(0), delta |-> DeltaJson])
ContentBlockStopEvent == Event("content_block_stop", [index |-> JNum(0)])
MessageStopEvent == Event("message_stop", <<>>)

RecognizedTags ==
    {"message_start", "content_block_start", "content_block_delta",
     "content_block_stop", "message_delta", "message_stop", "ping", "error"}

OtherTags == {"frobnicate", "Unknown", "unknown", "Ping", "message_stopped", ""}

EventPayloads ==
    {Event("message_start", [message |-> m]) : m \in MessagePayloads}
    \cup {Event("content_block_start", f) :
            f \in {[index |-> JNum(0), content_block |-> TextBlockJson],
                   [index |-> JNum(1), content_block |-> ImageBlockJson],
                   [index |-> JNum(0), content_block |-> BareBlockJson],
                   [index |-> JNum(0)],
                   [content_block |-> TextBlockJson],
                   [index |-> JNum(-1), content_block |-> TextBlockJson],
                   [index |-> JFloat("0.5"), content_block |-> TextBlockJson],
                   [index |-> JNum(0), content_block |-> JObj([text |-> JStr("hi")])],
                   [index |-> JNum(0), content_block |-> JStr("hi")]}}
    \cup {Event("content_block_delta", f) :
            f \in {[index |-> JNum(0), delta |-> DeltaJson],
                   [index |-> JNum(2), delta |-> DeltaJson, extra |-> JNull],
                   [delta |-> DeltaJson],
                   [index |-> JNum(0)],
                   [index |-> JStr("0"), delta |-> DeltaJson],
                   [index |-> JNum(0), delta |-> JObj([type |-> JStr("text_delta")])],
                   [index |-> JNum(0), delta |-> JObj([text |-> JStr("Hi")])],
                   [index |-> JNum(0),
                    delta |-> JObj([type |-> JStr("text_delta"), text |-> JNum(1)])],
                   [index |-> JNum(0), delta |-> JStr("Hi")]}}
    \cup {Event("content_block_stop", f) :
            f \in {[index |-> JNum(0)], [index |-> JNum(3), extra |-> JStr("x")],
                   <<>>, [index |-> JNull], [index |-> JNum(-1)],
                   [index |-> JStr("0")], [idx |-> JNum(0)]}}
    \cup {Event("message_delta", f) :
            f \in {[delta |-> MessageDeltaJson],
                   [delta |-> JObj(<<>>)],
                   [delta |-> JObj([stop_reason |-> JNull])],
                   [delta |-> MessageDeltaJson, usage |-> UsageJson],
                   <<>>, [delta |-> JNull],
                   [delta |-> JObj([stop_reason |-> JNum(1)])],
                   [delta |-> JObj([usage |-> JObj([output_tokens |-> JNum(2)])])],
                   [delta |-> JStr("end_turn")]}}
    \cup {Event("message_stop", f) : f \in {<<>>, [index |-> JNum(0)]}}
    \cup {Event("ping", f) : f \in {<<>>, [message |-> JNull]}}
    \cup {Event("error", f) :
            f \in {[error |-> ErrorJson], <<>>, [error |-> JNull],
                   [error |-> JObj([type |-> JStr("overloaded_error")])],
                   [error |-> JObj([message |-> JStr("Overloaded")])],
                   [error |-> JStr("Overloaded")],
                   [error |-> ErrorJson, message |-> JStr("x")]}}
    \cup {Event(t, f) : t \in OtherTags, f \in {<<>>, [index |-> JNum(0)]}}
    \cup {JObj(<<>>), JObj([index |-> JNum(0)]), JObj([type |-> JNull]),
          JStr("ping"), JNull}

\* The events streams are made of: the five of a reply, and one of a kind the
\* decoder does not know.
StreamPayloads ==
    {MessageStartEvent, ContentBlockStartEvent, ContentBlockDeltaEvent,
     ContentBlockStopEvent, MessageStopEvent, Event("frobnicate", <<>>)}

Endpoints ==
    {"Content", "Message", "CreateMessageResponse", "CompleteResponse", "StreamEvent"}

Deliveries(e) ==
    CASE e = "Content" -> {<<p>> : p \in ContentPayloads}
      [] e = "Message" -> {<<p>> : p \in MessagePayloads}
      [] e = "CreateMessageResponse" -> {<<p>> : p \in MessagePayloads}
      [] e = "CompleteResponse" -> SeqsUpTo(CompletePayloads, 1)
      [] e = "StreamEvent" ->
            {<<p>> : p \in EventPayloads} \cup SeqsUpTo(StreamPayloads, MaxStream)

-----------------------------------------------------------------------------
(* The response side: the transport has delivered payloads, the decoder reads
   them one at a time, each into one Result *)

InitDecode ==
    /\ RequestSideInit
    /\ endpoint \in Endpoints
    /\ pending \in Deliveries(endpoint)
    /\ events = <<>>
    /\ items = <<>>

requestVars == <<pc, cmb, crb, request, body>>

\* The decoder of each endpoint.
Decode(e, j) ==
    CASE e = "Content" -> DeContent(j)
      [] e = "Message" -> DeMessage(j)
      [] e = "CreateMessageResponse" -> DeCreateMessageResponse(j)
      [] e = "CompleteResponse" -> DeCompleteResponse(j)
      [] e = "StreamEvent" -> DeStreamEvent(j)

\* One payload is read and decoded; the result is the next item.
Read(e) ==
    /\ endpoint = e
    /\ pending # <<>>
    /\ items' = Append(items, Decode(e, Head(pending)))
    /\ events' = Append(events, Head(pending))
    /\ pending' = Tail(pending)
    /\ UNCHANGED <<endpoint, requestVars>>

ReadContent == Read("Content")
ReadMessage == Read("Message")
ReadCreateMessageResponse == Read("CreateMessageResponse")
ReadCompleteResponse == Read("CompleteResponse")
ReadStreamEvent == Read("StreamEvent")

NextDecode ==
    \/ ReadContent
    \/ ReadMessage
    \/ ReadCreateMessageResponse
    \/ ReadCompleteResponse
    \/ ReadStreamEvent

SpecDecode == InitDecode /\ [][NextDecode]_vars

-----------------------------------------------------------------------------
(* Properties of the request side, checked under Spec *)

BuiltFrom(type) == request.built /\ request.type = type
CreateMessageRequired == {"model", "messages", "max_tokens"}
CompleteRequired == {"prompt", "max_tokens_to_sample"}
OptionalKeys == {"system", "stop_sequences", "temperature", "top_p", "top_k"}
ResponseOnlyKeys == {"id", "type", "model", "stop_reason", "stop_sequence", "usage"}

\* C1: build() fails whenever a field without a declared default (model,
\* messages, max_tokens; prompt, max_tokens_to_sample) was never set.
C1_BuildFailsOnUnsetRequired ==
    /\ (BuiltFrom("CreateMessageRequest")
          /\ \E f \in CreateMessageRequired : ~cmb[f].some)
       => ~request.result.ok
    /\ (BuiltFrom("CompleteRequest") /\ \E f \in CompleteRequired : ~crb[f].some)
       => ~request.result.ok

\* C4: a serialized request carries no key for an optional field that is
\* unset, and so no optional field with the value null.
C4_UnsetOptionalsOmitted ==
    body.written =>
        \A f \in OptionalKeys \cap DOMAIN request.result.v :
            ~request.result.v[f].some => f \notin DOMAIN body.json.v

\* C5: every element of the messages array of a serialized
\* CreateMessageRequest has the keys role and content and none of the keys of
\* a response.
C5_MessagesAreRoleContent ==
    (body.written /\ request.type = "CreateMessageRequest") =>
        \A i \in 1..Len(body.json.v["messages"].v) :
            LET m == body.json.v["messages"].v[i].v IN
            /\ {"role", "content"} \subseteq DOMAIN m
            /\ ResponseOnlyKeys \cap DOMAIN m = {}

\* C7: an unset model of a CompleteRequestBuilder builds to DEFAULT_MODEL, an
\* unset stream of either builder to false, and a value set wins over both.
C7_DeclaredDefaults ==
    /\ BuiltFrom("CompleteRequest") =>
          /\ request.result.ok
          /\ request.result.v.model =
                (IF crb.model.some THEN crb.model.v ELSE DEFAULT_MODEL)
          /\ request.result.v.stream = (crb.stream.some /\ crb.stream.v)
    /\ (BuiltFrom("CreateMessageRequest") /\ request.result.ok) =>
          request.result.v.stream = (cmb.stream.some /\ cmb.stream.v)

C7_Witness ==
    /\ BuiltFrom("CompleteRequest")
    /\ ~crb.model.some /\ ~crb.stream.some /\ crb.prompt.some
    /\ request.result.ok
    /\ request.result.v.model = DEFAULT_MODEL

\* The content blocks of the request, each beside its serialized form.
SerializedBlocks ==
    IF body.written /\ request.type = "CreateMessageRequest"
    THEN UNION {{<<request.result.v.messages[i].content[j],
                   body.json.v["messages"].v[i].v["content"].v[j]>> :
                    j \in 1..Len(request.result.v.messages[i].content)} :
                 i \in 1..Len(request.result.v.messages)}
    ELSE {}

\* C9: a serialized ContentBlock has the key text exactly when text is
\* present, the key source exactly when source is present, and no null value;
\* with neither present it is the type key alone.
C9_BlockOmitsAbsent ==
    \A pr \in SerializedBlocks :
        LET b == pr[1]
            o == pr[2].v
        IN /\ "type" \in DOMAIN o
           /\ DOMAIN o \subseteq {"type", "text", "source"}
           /\ "text" \in DOMAIN o <=> b.text.some
           /\ "source" \in DOMAIN o <=> b.source.some
           /\ \A key \in DOMAIN o : o[key].k # "null"
           /\ (~b.text.some /\ ~b.source.some) => DOMAIN o = {"type"}

C9_Witness ==
    \E pr \in SerializedBlocks :
        /\ ~pr[1].text.some /\ ~pr[1].source.some
        /\ pr[2] = JObj([type |-> JStr("text")])

-----------------------------------------------------------------------------
(* What the declared types ask of a payload, field by field *)

IsKind(m, key, kind) == key \in DOMAIN m /\ m[key].k = kind
IsOptKind(m, key, kind) == key \notin DOMAIN m \/ m[key].k \in {"null", kind}
Absent(m, key) == key \notin DOMAIN m \/ m[key].k = "null"

WellFormedUsage(j) ==
    j.k = "obj" /\ IsKind(j.v, "input_tokens", "num") /\ IsKind(j.v, "output_tokens", "num")

WellFormedImage(j) ==
    /\ j.k = "obj"
    /\ IsKind(j.v, "type", "str")
    /\ IsKind(j.v, "media_type", "str")
    /\ IsKind(j.v, "data", "str")

WellFormedBlock(j) ==
    /\ j.k = "obj"
    /\ IsKind(j.v, "type", "str")
    /\ IsOptKind(j.v, "text", "str")
    /\ Absent(j.v, "source") \/ WellFormedImage(j.v["source"])

WellFormedBlocks(j) == j.k = "arr" /\ \A i \in 1..Len(j.v) : WellFormedBlock(j.v[i])

\* The fields every message response must carry.
WellFormedMessageCore(j) ==
    /\ j.k = "obj"
    /\ \A key \in {"id", "type", "role", "model"} : IsKind(j.v, key, "str")
    /\ "content" \in DOMAIN j.v /\ WellFormedBlocks(j.v["content"])
    /\ "usage" \in DOMAIN j.v /\ WellFormedUsage(j.v["usage"])
    /\ IsOptKind(j.v, "stop_sequence", "str")

\* Message: stop_reason is optional.
WellFormedMessage(j) == WellFormedMessageCore(j) /\ IsOptKind(j.v, "stop_reason", "str")

\* CreateMessageResponse: stop_reason is required.
WellFormedCreateMessageResponse(j) ==
    WellFormedMessageCore(j) /\ IsKind(j.v, "stop_reason", "str")

WellFormedComplete(j) ==
    /\ j.k = "obj"
    /\ IsKind(j.v, "completion", "str")
    /\ \/ Absent(j.v, "stop_reason")
       \/ /\ j.v["stop_reason"].k = "str"
          /\ j.v["stop_reason"].v \in {"max_tokens", "stop_sequence"}

WellFormedDelta(j) ==
    j.k = "obj" /\ IsKind(j.v, "type", "str") /\ IsKind(j.v, "text", "str")

WellFormedMessageDelta(j) ==
    /\ j.k = "obj"
    /\ IsOptKind(j.v, "stop_reason", "str")
    /\ IsOptKind(j.v, "stop_sequence", "str")
    /\ Absent(j.v, "usage") \/ WellFormedUsage(j.v["usage"])

WellFormedErrorData(j) ==
    j.k = "obj" /\ IsKind(j.v, "type", "str") /\ IsKind(j.v, "message", "str")

IsIndex(m) == IsKind(m, "index", "num") /\ m["index"].v >= 0

TagOf(j) == j.v["type"].v
HasTag(j) == j.k = "obj" /\ IsKind(j.v, "type", "str")
Recognized(j) == HasTag(j) /\ TagOf(j) \in RecognizedTags

\* The variant each recognized tag names.
NamedVariant ==
    [message_start |-> "MessageStart", content_block_start |-> "ContentBlockStart",
     content_block_delta |-> "ContentBlockDelta",
     content_block_stop |-> "ContentBlockStop", message_delta |-> "MessageDelta",
     message_stop |-> "MessageStop", ping |-> "Ping", error |-> "Error"]

\* The required fields of the variant are present and well-typed.
WellFormedEvent(j) ==
    LET m == j.v IN
    CASE TagOf(j) = "message_start" ->
            "message" \in DOMAIN m /\ WellFormedMessage(m["message"])
      [] TagOf(j) = "content_block_start" ->
            /\ IsIndex(m)
            /\ "content_block" \in DOMAIN m /\ WellFormedBlock(m["content_block"])
      [] TagOf(j) = "content_block_delta" ->
            IsIndex(m) /\ "delta" \in DOMAIN m /\ WellFormedDelta(m["delta"])
      [] TagOf(j) = "content_block_stop" -> IsIndex(m)
      [] TagOf(j) = "message_delta" ->
            "delta" \in DOMAIN m /\ WellFormedMessageDelta(m["delta"])
      [] TagOf(j) = "error" ->
            "error" \in DOMAIN m /\ WellFormedErrorData(m["error"])
      [] OTHER -> TRUE

-----------------------------------------------------------------------------
(* Properties of the response side, checked under SpecDecode *)

Reading(e) == endpoint = e
Read1 == 1..Len(items)

\* C2: an event whose tag is a string outside the eight recognized ones
\* decodes to Ok(Unknown), never to an error.
C2_UnrecognizedTagIsUnknown ==
    Reading("StreamEvent") =>
        \A i \in Read1 :
            (HasTag(events[i]) /\ TagOf(events[i]) \notin RecognizedTags)
                => items[i] = Ok([variant |-> "Unknown"])

\* C3: an event with a recognized tag decodes to the variant the tag names
\* when the variant's required fields are present and well-typed, and to an
\* error, not to Unknown or another variant, when they are not.
C3_RecognizedTagDispatch ==
    Reading("StreamEvent") =>
        \A i \in Read1 :
            Recognized(events[i]) =>
                IF WellFormedEvent(events[i])
                THEN /\ items[i].ok
                     /\ items[i].v.variant = NamedVariant[TagOf(events[i])]
                ELSE ~items[i].ok

C3_Witness ==
    /\ Reading("StreamEvent")
    /\ \E i \in Read1 :
          /\ events[i] = Event("content_block_delta",
                               [index |-> JNum(0),
                                delta |-> JObj([type |-> JStr("text_delta")])])
          /\ ~items[i].ok

\* C6: a JSON string s decodes to Text(s), a JSON array of well-formed blocks
\* to Blocks with the blocks in the array's order, and a number, a boolean,
\* null or an object to an error.
C6_ContentByShape ==
    Reading("Content") =>
        \A i \in Read1 :
            LET j == events[i]
                r == items[i]
            IN /\ j.k = "str" => r = Ok([variant |-> "Text", text |-> j.v])
               /\ WellFormedBlocks(j) =>
                    /\ r.ok /\ r.v.variant = "Blocks"
                    /\ Len(r.v.blocks) = Len(j.v)
                    /\ \A n \in 1..Len(j.v) :
                          /\ r.v.blocks[n].content_type = j.v[n].v["type"].v
                          /\ r.v.blocks[n].text.some = ~Absent(j.v[n].v, "text")
                          /\ r.v.blocks[n].source.some = ~Absent(j.v[n].v, "source")
               /\ j.k \in {"num", "float", "bool", "null", "obj"} => ~r.ok

C6_Witness ==
    /\ Reading("Content")
    /\ \E i \in Read1 :
          /\ events[i] = JArr(<<ImageBlockJson, TextBlockJson>>)
          /\ items[i].ok
          /\ items[i].v.blocks[1].content_type = "image"
          /\ items[i].v.blocks[2].text = Some("hi")

\* The optional fields a payload leaves out are None in the decoded value.
OmittedAreNone(j, r, optionals) ==
    \A key \in optionals : key \notin DOMAIN j.v => ~r.v[key].some

\* C8 as claimed: stop_reason and stop_sequence are optional in every message
\* response, stop_reason in a completion response; one left out decodes to
\* None, and the decode fails exactly when a required field is missing or a
\* field has the wrong shape.
C8_OptionalAndRequired ==
    \A i \in Read1 :
        LET j == events[i]
            r == items[i]
        IN j.k = "obj" =>
            /\ (Reading("Message") \/ Reading("CreateMessageResponse")) =>
                  /\ r.ok <=> WellFormedMessage(j)
                  /\ r.ok => OmittedAreNone(j, r, {"stop_reason", "stop_sequence"})
            /\ Reading("CompleteResponse") =>
                  /\ r.ok <=> WellFormedComplete(j)
                  /\ r.ok => OmittedAreNone(j, r, {"stop_reason"})

\* C8 as the types declare it: stop_reason is optional in Message and in
\* CompleteResponse and required in CreateMessageResponse, stop_sequence is
\* optional in both message responses.
C8_OptionalAndRequiredAsDeclared ==
    \A i \in Read1 :
        LET j == events[i]
            r == items[i]
        IN j.k = "obj" =>
            /\ Reading("Message") =>
                  /\ r.ok <=> WellFormedMessage(j)
                  /\ r.ok => OmittedAreNone(j, r, {"stop_reason", "stop_sequence"})
            /\ Reading("CreateMessageResponse") =>
                  /\ r.ok <=> WellFormedCreateMessageResponse(j)
                  /\ r.ok => OmittedAreNone(j, r, {"stop_sequence"})
            /\ Reading("CompleteResponse") =>
                  /\ r.ok <=> WellFormedComplete(j)
                  /\ r.ok => OmittedAreNone(j, r, {"stop_reason"})

C8_Witness ==
    /\ Reading("Message")
    /\ \E i \in Read1 :
          /\ events[i] = JObj(Without(Without(MessageJson, "stop_reason"), "stop_sequence"))
          /\ items[i].ok
          /\ items[i].v.stop_reason = None /\ items[i].v.stop_sequence = None

\* The stream of one short reply.
ReplyEvents ==
    <<MessageStartEvent, ContentBlockStartEvent, ContentBlockDeltaEvent,
      ContentBlockStopEvent, MessageStopEvent>>

ReplyVariants ==
    <<"MessageStart", "ContentBlockStart", "ContentBlockDelta", "ContentBlockStop",
      "MessageStop">>

\* C10: the decoder yields one item per event read, in the order read; the
\* item of a well-formed event is Ok, of the variant its tag names, a delta
\* carrying the text of its own payload, whatever came before; the five
\* events of a reply yield five Ok items in order, the third with text "Hi".
C10_OneItemPerEventInOrder ==
    Reading("StreamEvent") =>
        /\ Len(items) = Len(events)
        /\ \A i \in Read1 :
              (Recognized(events[i]) /\ WellFormedEvent(events[i])) =>
                  /\ items[i].ok
                  /\ items[i].v.variant = NamedVariant[TagOf(events[i])]
                  /\ TagOf(events[i]) = "content_block_delta" =>
                        items[i].v.delta.text = events[i].v["delta"].v["text"].v
        /\ \A i, n \in Read1 : events[i] = events[n] => items[i] = items[n]
        /\ (events = ReplyEvents) =>
              /\ Len(items) = 5
              /\ \A i \in 1..5 : items[i].ok /\ items[i].v.variant = ReplyVariants[i]
              /\ items[3].v.delta.text = "Hi"

C10_Witness ==
    /\ Reading("StreamEvent")
    /\ pending = <<>>
    /\ events = ReplyEvents
    /\ Len(items) = 5
    /\ items[3] = Ok([variant |-> "ContentBlockDelta", index |-> 0,
                      delta |-> [delta_type |-> "text_delta", text |-> "Hi"]])

====
